---- MODULE Spec2Model ----
(***************************************************************************)
(* Model of bot.py: a Telegram bot that stores snippets (a text artifact   *)
(* plus media files, or a forward reference in meta.yaml) under a key and  *)
(* replays them when a message mentions "#key" or a trigger word, and     *)
(* lists the stored keys on /listng.                                       *)
(*                                                                         *)
(* Strings are sequences of tokens (<<"spicy", "-", "ouch">> is the text   *)
(* "spicy-ouch"), so that prefixing, globbing, splitting and word-boundary *)
(* matching are computed, not assumed.  A text body is represented by the  *)
(* message it was taken from and its length in characters.                 *)
(*                                                                         *)
(* The application is built without concurrent update processing          *)
(* (bot.py:117), so Spec runs one handler at a time.  SpecOverlap lets a   *)
(* second save handler interleave with a running one at its await points   *)
(* (get_file / download_to_drive / send_message).                          *)
(***************************************************************************)
EXTENDS Integers, Sequences, FiniteSets, TLC

VARIABLES snips, meta, tasks

vars == <<snips, meta, tasks>>

----------------------------------------------------------------------------
(* Bounds of the model *)

\* largest number of references (tags or free words) in one inbound text
MaxRefs == 2

(* Program constants *)

MAX_MEDIA_SAVE_SIZE == 10 * 1024 * 1024

\* len(caption) > 1024, bot.py:236 and bot.py:386
CAPTION_LIMIT == 1024

\* len(chunk) + len(part) > 4000, bot.py:639
PAGE_LIMIT == 4000

----------------------------------------------------------------------------
(* Strings as token sequences *)

\* tokens matched by the regex class \w ("-", ".", "#" and " " are not)
IsWordTok(t) == t \notin {"-", ".", "#", " "}

\* str.lower() on one token
LowerTok(t) ==
  CASE t = "Cat"  -> "cat"
    [] t = "OUCH" -> "ouch"
    [] OTHER      -> t

Lower(s) == [i \in 1..Len(s) |-> LowerTok(s[i])]

IsPrefix(p, s) == Len(p) <= Len(s) /\ SubSeq(s, 1, Len(p)) = p

IsSuffix(p, s) == Len(p) <= Len(s) /\ SubSeq(s, Len(s) - Len(p) + 1, Len(s)) = p

\* position of the last "." of a file name, 0 when there is none
LastDot(n) ==
  IF \E i \in 1..Len(n) : n[i] = "."
  THEN CHOOSE i \in 1..Len(n) : n[i] = "." /\ \A j \in (i+1)..Len(n) : n[j] # "."
  ELSE 0

\* Path.stem and Path.suffix (the suffix without its dot)
Stem(n) == IF LastDot(n) = 0 THEN n ELSE SubSeq(n, 1, LastDot(n) - 1)

Suffix(n) == IF LastDot(n) = 0 THEN <<>> ELSE SubSeq(n, LastDot(n) + 1, Len(n))

\* position of the first occurrence of token c in s, 0 when there is none
FirstTok(s, c) ==
  IF \E i \in 1..Len(s) : s[i] = c
  THEN CHOOSE i \in 1..Len(s) : s[i] = c /\ \A j \in 1..(i-1) : s[j] # c
  ELSE 0

\* code-point order of the tokens that occur in file names
TokenOrder == <<"-", ".", "0", "1", "2", "3", "_", "cat", "dog", "hot", "html",
                "jpg", "md", "mp4", "ogg", "ouch", "pdf", "spicy", "x", "y">>

TokRank(t) == CHOOSE i \in 1..Len(TokenOrder) : TokenOrder[i] = t

\* a < b in the order sorted() gives paths
RECURSIVE NameLess(_, _)
NameLess(a, b) ==
  IF a = <<>> THEN b # <<>>
  ELSE IF b = <<>> THEN FALSE
  ELSE IF Head(a) = Head(b) THEN NameLess(Tail(a), Tail(b))
  ELSE TokRank(Head(a)) < TokRank(Head(b))

\* sorted(S) for a finite set of names
RECURSIVE SortNames(_)
SortNames(S) ==
  IF S = {} THEN <<>>
  ELSE LET m == CHOOSE x \in S : \A y \in S \ {x} : NameLess(x, y)
       IN  <<m>> \o SortNames(S \ {m})

----------------------------------------------------------------------------
(* The snips directory and meta.yaml *)

Files == DOMAIN snips

HtmlPath(hashtag) == hashtag \o <<".", "html">>

MdPath(hashtag) == hashtag \o <<".", "md">>

\* f"{hashtag}_{idx}{Path(fname).suffix}"
SavePath(hashtag, idx, ext) == hashtag \o <<"_", ToString(idx), ".", ext>>

\* writing (creating or overwriting) one file
WriteFile(dir, path, content) ==
  [p \in (DOMAIN dir) \cup {path} |-> IF p = path THEN content ELSE dir[p]]

\* meta[hashtag] = ref, and del meta[hashtag]
MetaPut(mt, hashtag, ref) ==
  [k \in (DOMAIN mt) \cup {hashtag} |-> IF k = hashtag THEN ref ELSE mt[k]]

MetaDel(mt, hashtag) == [k \in (DOMAIN mt) \ {hashtag} |-> mt[k]]

\* the text of a saved message: html text artifact
HtmlBody(src, n) == [kind |-> "html", src |-> src, len |-> n]

MediaBody(src, slot) == [kind |-> "media", src |-> src, slot |-> slot]

----------------------------------------------------------------------------
(* Inputs: users, the messages a save command replies to *)

ADMIN_IDS == {1}

Users == {1, 2}

\* the chat all updates arrive in
ChatId == 7

\* file_size of an attachment that reports none
NoSize == -1

\* an attachment: the suffix of its file name and its reported size
Att(ext, size) == [ext |-> ext, file_size |-> size]

\* text and caption are given by the length of text_html / caption_html,
\* 0 when the message has none
SourceMessages ==
  { [message_id |-> 11, chat_id |-> ChatId, text |-> 5, caption |-> 0,
     media_entries |-> <<>>],
    [message_id |-> 12, chat_id |-> ChatId, text |-> 0, caption |-> 1023,
     media_entries |-> <<Att("ogg", MAX_MEDIA_SAVE_SIZE - 1), Att("jpg", 1)>>],
    [message_id |-> 13, chat_id |-> ChatId, text |-> 0, caption |-> 1024,
     media_entries |-> <<Att("ogg", NoSize)>>],
    [message_id |-> 14, chat_id |-> ChatId, text |-> 0, caption |-> 0,
     media_entries |-> <<Att("mp4", MAX_MEDIA_SAVE_SIZE), Att("jpg", 1)>>] }

\* context.args of a /save and of a /savespicy command (<<>>: no argument)
SaveArgs == {<<>>, <<"spicy", "-", "OUCH">>}

SpicyArgs == {<<>>, <<"OUCH">>}

----------------------------------------------------------------------------
(* Handlers in flight *)

Tasks == {"t1", "t2"}

Idle == [handler |-> "idle", pc |-> "idle", sent |-> <<>>, error |-> "none"]

\* an outbound send_message that is not a snippet reply
Notice(what) == [op |-> "send_message", what |-> what, chat_id |-> ChatId]

\* sum((getattr(ent, 'file_size', 0) or 0) for ent in media_entries)
RECURSIVE SumSizes(_)
SumSizes(entries) ==
  IF entries = <<>> THEN 0
  ELSE (IF Head(entries).file_size = NoSize THEN 0 ELSE Head(entries).file_size)
       + SumSizes(Tail(entries))

\* len('\n'.join(parts)) for parts = [text_html] and/or [caption_html]
PartsLen(reply) ==
  IF reply.text > 0 /\ reply.caption > 0
  THEN reply.text + 1 + reply.caption
  ELSE reply.text + reply.caption

\* len('\n'.join(lines).strip() + '\n')
BodyLen(reply) == PartsLen(reply) + 1

\* the threshold test with the boundary on the wrong side
TooLarge_AtLeast(total) == total >= MAX_MEDIA_SAVE_SIZE

\* total_media_size > MAX_MEDIA_SAVE_SIZE
TooLarge(total) == total > MAX_MEDIA_SAVE_SIZE

\* the forward reference written for a source message
ForwardRef(reply) == [chat_id |-> reply.chat_id, message_id |-> reply.message_id]

\* an awaited send: it returns, or raises and the handler is abandoned to
\* the error handler (error is the kind of call that raised)
AfterSend(task, req, ok, pcNext) ==
  IF ok THEN [task EXCEPT !.sent = Append(@, req), !.pc = pcNext]
  ELSE [task EXCEPT !.pc = "error", !.error = "send"]

\* del meta[hashtag] after a local save (handle_save only)
DropForward(mt, task) ==
  IF task.handler = "save" /\ task.hashtag \in DOMAIN mt
  THEN MetaDel(mt, task.hashtag)
  ELSE mt

\* a commit step whose git failure is not caught and abandons the handler
CommitLocal_GitRaises(t, base, task, dir) ==
  \E git \in {"ok", "failed"} :
    /\ snips' = WriteFile(dir, HtmlPath(task.hashtag),
                          HtmlBody(task.reply.message_id, BodyLen(task.reply)))
    /\ meta' = DropForward(meta, task)
    /\ tasks' = [base EXCEPT ![t] =
                   IF git = "ok"
                   THEN [task EXCEPT !.audit = git, !.pc = "confirm"]
                   ELSE [task EXCEPT !.audit = git, !.pc = "error", !.error = "git"]]

\* the text artifact is written, the forward reference removed and the
\* git add / commit / push step run, all before the next await
CommitLocal(t, base, task, dir) ==
  \E git \in {"ok", "failed"} :
    /\ snips' = WriteFile(dir, HtmlPath(task.hashtag),
                          HtmlBody(task.reply.message_id, BodyLen(task.reply)))
    /\ meta' = DropForward(meta, task)
    /\ tasks' = [base EXCEPT ![t] = [task EXCEPT !.audit = git, !.pc = "confirm"]]

\* the task a save command starts once it is authorized and has its key
SaveTask(handler, user, hashtag, reply) ==
  [handler |-> handler, pc |-> "download", user |-> user, hashtag |-> hashtag,
   reply |-> reply, idx |-> 0, total |-> SumSizes(reply.media_entries),
   saved_files |-> <<>>, audit |-> "none", sent |-> <<>>, error |-> "none"]

\* a command that ended before it had a key: with or without a message it
\* replies to, with or without an argument
Rejected(handler, user, has_reply, args) ==
  [handler |-> handler, pc |-> "done", user |-> user, has_reply |-> has_reply,
   args |-> args, sent |-> <<>>, error |-> "none"]

\* an admin test that lets every user through
Authorized_Anyone(user) == TRUE

\* update.effective_user.id in ADMIN_IDS
Authorized(user) == user \in ADMIN_IDS

\* hashtag = args[0].lower(), fullname = f"spicy-{trig}"
SaveKey(handler, args) ==
  IF handler = "save" THEN Lower(args) ELSE <<"spicy", "-">> \o Lower(args)

\* handle_save and handle_savespicy up to their first await; only
\* handle_save sums the attachment sizes
BeginSave(t, handler, user, has_reply, args, reply) ==
  IF ~has_reply
  THEN /\ tasks' = [tasks EXCEPT ![t] = Rejected(handler, user, has_reply, args)]
       /\ UNCHANGED <<snips, meta>>
  ELSE IF ~Authorized(user)
  THEN /\ \E ok \in BOOLEAN :
            tasks' = [tasks EXCEPT
                        ![t] = AfterSend(Rejected(handler, user, has_reply, args),
                                        Notice("denied"), ok, "done")]
       /\ UNCHANGED <<snips, meta>>
  ELSE IF args = <<>>
  THEN /\ \E ok \in BOOLEAN :
            tasks' = [tasks EXCEPT
                        ![t] = AfterSend(Rejected(handler, user, has_reply, args),
                                        Notice("usage"), ok, "done")]
       /\ UNCHANGED <<snips, meta>>
  ELSE LET task == SaveTask(handler, user, SaveKey(handler, args), reply)
       IN  IF handler = "save" /\ TooLarge(task.total)
           THEN /\ meta' = MetaPut(meta, task.hashtag, ForwardRef(reply))
                /\ \E ok \in BOOLEAN :
                     tasks' = [tasks EXCEPT
                                 ![t] = AfterSend(task, Notice("forward_only"), ok, "done")]
                /\ UNCHANGED snips
           ELSE IF reply.media_entries = <<>>
           THEN CommitLocal(t, tasks, task, snips)
           ELSE /\ tasks' = [tasks EXCEPT ![t] = task]
                /\ UNCHANGED <<snips, meta>>

\* no handler is running: the next update is taken up
NoneRunning == \A u \in Tasks : tasks[u].pc = "idle"

\* a /save (or /saveng) command arrives
HandleSave ==
  /\ NoneRunning
  /\ \E user \in Users, has_reply \in BOOLEAN, args \in SaveArgs, reply \in SourceMessages :
       BeginSave("t1", "save", user, has_reply, args, reply)

\* a /savespicy command arrives
HandleSaveSpicy ==
  /\ NoneRunning
  /\ \E user \in Users, has_reply \in BOOLEAN, args \in SpicyArgs, reply \in SourceMessages :
       BeginSave("t1", "savespicy", user, has_reply, args, reply)

\* one turn of the attachment loop: get_file, download_to_drive and the code
\* up to the next await (the rest of the save after the last attachment)
Download(t) ==
  /\ tasks[t].pc = "download"
  /\ LET task == tasks[t]
         ent  == task.reply.media_entries[task.idx + 1]
         path == SavePath(task.hashtag, task.idx, ent.ext)
         last == task.idx + 1 = Len(task.reply.media_entries)
     IN  \E outcome \in {"saved", "download_failed", "get_file_failed"} :
           IF outcome = "get_file_failed"
           THEN /\ tasks' = [tasks EXCEPT ![t] = [task EXCEPT !.pc = "error", !.error = "get_file"]]
                /\ UNCHANGED <<snips, meta>>
           ELSE LET dir  == IF outcome = "saved"
                            THEN WriteFile(snips, path,
                                           MediaBody(task.reply.message_id, task.idx))
                            ELSE snips
                    next == [task EXCEPT
                               !.idx = @ + 1,
                               !.saved_files = IF outcome = "saved"
                                               THEN Append(@, path) ELSE @]
                IN  IF last
                    THEN CommitLocal(t, tasks, next, dir)
                    ELSE /\ snips' = dir
                         /\ tasks' = [tasks EXCEPT ![t] = next]
                         /\ UNCHANGED meta

\* await send_message(... "Saved snip ...")
Confirm(t) ==
  /\ tasks[t].pc = "confirm"
  /\ \E ok \in BOOLEAN :
       tasks' = [tasks EXCEPT ![t] = AfterSend(tasks[t], Notice("saved"), ok, "done")]
  /\ UNCHANGED <<snips, meta>>

\* error_handler: the notice is sent, or its own failure is only logged
ErrorHandler(t) ==
  /\ tasks[t].pc = "error"
  /\ \E ok \in BOOLEAN :
       tasks' = [tasks EXCEPT ![t] =
                   [tasks[t] EXCEPT !.pc = "done",
                                    !.sent = IF ok THEN Append(@, Notice("error")) ELSE @]]
  /\ UNCHANGED <<snips, meta>>

\* the handler has returned: its slot is free for the next update
Return(t) ==
  /\ tasks[t].pc = "done"
  /\ tasks' = [tasks EXCEPT ![t] = Idle]
  /\ UNCHANGED <<snips, meta>>

----------------------------------------------------------------------------
(* Trigger extraction *)

\* tokens of the regex class [\w-]
IsTagTok(t) == IsWordTok(t) \/ t = "-"

\* the end of the longest run of [\w-] tokens that starts at position i
RECURSIVE RunEnd(_, _)
RunEnd(text, i) ==
  IF i + 1 <= Len(text) /\ IsTagTok(text[i + 1]) THEN RunEnd(text, i + 1) ELSE i

\* HASHTAG_RE.findall on the text from position i on, each tag lower-cased
RECURSIVE HashtagsFrom(_, _)
HashtagsFrom(text, i) ==
  IF i > Len(text) THEN <<>>
  ELSE IF text[i] = "#" /\ i + 1 <= Len(text) /\ IsTagTok(text[i + 1])
  THEN <<Lower(SubSeq(text, i + 1, RunEnd(text, i + 1)))>>
         \o HashtagsFrom(text, RunEnd(text, i + 1) + 1)
  ELSE HashtagsFrom(text, i + 1)

\* an extraction that keeps only the first occurrence of each tag
extract_hashtags_Dedup(text) ==
  LET all == HashtagsFrom(text, 1)
      F[i \in 0..Len(all)] ==
        IF i = 0 THEN <<>>
        ELSE IF \E j \in 1..(i - 1) : all[j] = all[i] THEN F[i - 1]
        ELSE Append(F[i - 1], all[i])
  IN  F[Len(all)]

extract_hashtags(text) == HashtagsFrom(text, 1)

\* a glob that does not ask for the .html suffix
SpicyGlob_AnySuffix(dir) ==
  {p \in DOMAIN dir : Len(p) >= 2 /\ IsPrefix(<<"spicy", "-">>, p)}

\* SNIPS.glob('spicy-*.html')
SpicyGlob(dir) ==
  {p \in DOMAIN dir : /\ Len(p) >= 4
                      /\ IsPrefix(<<"spicy", "-">>, p)
                      /\ IsSuffix(<<".", "html">>, p)}

\* stem.split('-', 1)[1].lower()
TriggerOf(p) == Lower(SubSeq(Stem(p), FirstTok(Stem(p), "-") + 1, Len(Stem(p))))

\* the trigger words, in the order the directory is listed (taken sorted)
load_spicy_triggers(dir) ==
  LET names == SortNames({p \in SpicyGlob(dir) : FirstTok(Stem(p), "-") > 0})
  IN  [i \in 1..Len(names) |-> TriggerOf(names[i])]

\* is there a \b between positions k and k+1 of s
Boundary(s, k) ==
  (k >= 1 /\ k <= Len(s) /\ IsWordTok(s[k]))
    # (k + 1 >= 1 /\ k + 1 <= Len(s) /\ IsWordTok(s[k + 1]))

\* re.search(rf"\b{re.escape(t)}\b", s)
WordMatch(t, s) ==
  \E i \in 1..(Len(s) + 1) :
    /\ i + Len(t) - 1 <= Len(s)
    /\ SubSeq(s, i, i + Len(t) - 1) = t
    /\ Boundary(s, i - 1)
    /\ Boundary(s, i + Len(t) - 1)

extract_spicy_triggers(text, triggers) ==
  SelectSeq(triggers, LAMBDA t : WordMatch(t, Lower(text)))

----------------------------------------------------------------------------
(* Reply composition *)

None == [kind |-> "none"]

\* a text or caption as it is handed to the transport
Caption(src, n, mode) == [kind |-> "text", src |-> src, len |-> n, parse_mode |-> mode]

VoiceExt == {"oga", "ogg", "opus"}

\* the InputMedia class chosen from the file suffix
MediaType(p) ==
  LET ext == Lower(Suffix(p))
  IN  IF ext \in {<<"jpg">>, <<"jpeg">>, <<"png">>, <<"gif">>} THEN "photo"
      ELSE IF ext \in {<<"mp4">>, <<"mov">>, <<"mkv">>, <<"webm">>} THEN "video"
      ELSE IF ext \in {<<e>> : e \in VoiceExt} THEN "audio"
      ELSE "document"

IsVoiceFile(p) == Lower(Suffix(p)) \in {<<e>> : e \in VoiceExt}

\* one outbound request of a snippet reply
Request(op, tag, origin, target, text, media) ==
  [op |-> op, chat_id |-> ChatId, reply_to_message_id |-> target, tag |-> tag,
   origin |-> origin, text |-> text, media |-> media]

\* sorted(SNIPS.glob(f"{tag}_*"))
GlobTag(dir, tag) == SortNames({p \in DOMAIN dir : IsPrefix(tag \o <<"_">>, p)})

\* one item of a media group
Item(dir, p, caption) ==
  [type |-> MediaType(p), name |-> p, media |-> dir[p], caption |-> caption]

\* the reply to a snippet stored as {tag}.html; T names the message each
\* send site of the loop threads under
HtmlReply(tag, dir, origin, T) ==
  LET html    == dir[HtmlPath(tag)]
      files   == GlobTag(dir, tag)
      caption == Caption(html.src, html.len, IF html.len > 0 THEN "HTML" ELSE "none")
  IN  IF Len(files) = 1 /\ IsVoiceFile(files[1])
      THEN <<Request("send_voice", tag, origin, T.html_voice, caption,
                     <<Item(dir, files[1], None)>>)>>
      ELSE IF Len(files) > 0
      THEN <<Request("send_media_group", tag, origin, T.html_group, None,
                     [i \in 1..Len(files) |->
                        Item(dir, files[i],
                             IF i = 1 THEN Caption(html.src, html.len, "HTML") ELSE None)])>>
      ELSE <<Request("send_message", tag, origin, T.html_text,
                     Caption(html.src, html.len, "HTML"), <<>>)>>

\* parse_markdown_media: the placeholders whose file exists are cut out of
\* the text and their paths collected
RECURSIVE PlainLen(_, _)
PlainLen(segs, dir) ==
  IF segs = <<>> THEN 0
  ELSE (IF Head(segs).media # <<>> /\ Head(segs).media \in DOMAIN dir
        THEN 0 ELSE Head(segs).len)
       + PlainLen(Tail(segs), dir)

MediaPaths(segs, dir) ==
  LET hits == SelectSeq(segs, LAMBDA g : g.media # <<>> /\ g.media \in DOMAIN dir)
  IN  [i \in 1..Len(hits) |-> hits[i].media]

\* the reply to a snippet stored as {tag}.md
MdReply(tag, dir, origin, T) ==
  LET md             == dir[MdPath(tag)]
      plain          == PlainLen(md.segs, dir)
      existing_media == MediaPaths(md.segs, dir)
      long_caption   == plain > 0 /\ plain > CAPTION_LIMIT
      escaped        == Caption(md.src, plain, "MARKDOWN_V2")
      unformatted    == Caption(md.src, plain, "none")
  IN  IF existing_media = <<>>
      THEN IF plain > 0
           THEN <<Request("send_message", tag, origin, T.md_text, escaped, <<>>)>>
           ELSE <<>>
      ELSE IF Len(existing_media) = 1 /\ IsVoiceFile(existing_media[1])
      THEN <<Request("send_voice", tag, origin, T.md_voice,
                     IF long_caption THEN None
                     ELSE IF plain > 0 THEN escaped ELSE unformatted,
                     <<Item(dir, existing_media[1], None)>>)>>
           \o (IF long_caption
               THEN <<Request("send_message", tag, origin, T.md_voice_long,
                              unformatted, <<>>)>>
               ELSE <<>>)
      ELSE (IF long_caption
            THEN <<Request("send_message", tag, origin, T.md_long, unformatted, <<>>)>>
            ELSE <<>>)
           \o <<Request("send_media_group", tag, origin, T.md_group, None,
                        [i \in 1..Len(existing_media) |->
                           Item(dir, existing_media[i],
                                IF i = 1 /\ plain > 0 /\ ~long_caption
                                THEN escaped ELSE None)])>>

\* .md is looked up before .html; a key with neither gets no reply
LocalReply(tag, dir, origin, T) ==
  IF MdPath(tag) \in DOMAIN dir THEN MdReply(tag, dir, origin, T)
  ELSE IF HtmlPath(tag) \in DOMAIN dir THEN HtmlReply(tag, dir, origin, T)
  ELSE <<>>

\* reply_target and spicy_target of an inbound message
ReplyTarget(m) ==
  IF m.reply_to_message # 0 THEN m.reply_to_message ELSE m.message_id

SpicyTarget(m) == m.message_id

\* the target used at each send site of the "for tag in hashtags" loop
HashtagTargets(m) ==
  [html_voice    |-> SpicyTarget(m),
   html_group    |-> ReplyTarget(m),
   html_text     |-> ReplyTarget(m),
   md_text       |-> ReplyTarget(m),
   md_voice      |-> ReplyTarget(m),
   md_voice_long |-> ReplyTarget(m),
   md_long       |-> ReplyTarget(m),
   md_group      |-> ReplyTarget(m)]

\* the target used at each send site of the "for trig in spicy_matches" loop
SpicyTargets(m) ==
  [html_voice    |-> SpicyTarget(m),
   html_group    |-> SpicyTarget(m),
   html_text     |-> SpicyTarget(m),
   md_text       |-> SpicyTarget(m),
   md_voice      |-> SpicyTarget(m),
   md_voice_long |-> SpicyTarget(m),
   md_long       |-> ReplyTarget(m),
   md_group      |-> SpicyTarget(m)]

\* one turn of the hashtag loop: a forward reference is copied, else the
\* local snippet is replayed
HashtagReply(tag, mt, dir, m) ==
  IF tag \in DOMAIN mt
  THEN <<[Request("copy_message", tag, "hashtag", ReplyTarget(m), None, <<>>)
            EXCEPT !.text = [kind |-> "ref", from_chat_id |-> mt[tag].chat_id,
                             message_id |-> mt[tag].message_id]]>>
  ELSE LocalReply(tag, dir, "hashtag", HashtagTargets(m))

\* one turn of the trigger-word loop
SpicyReply(trig, dir, m) ==
  LocalReply(<<"spicy", "-">> \o trig, dir, "spicy", SpicyTargets(m))

\* the requests of the hashtag loop, then those of the trigger-word loop
RECURSIVE HashtagLoop(_, _, _, _)
HashtagLoop(hashtags, mt, dir, m) ==
  IF hashtags = <<>> THEN <<>>
  ELSE HashtagReply(Head(hashtags), mt, dir, m) \o HashtagLoop(Tail(hashtags), mt, dir, m)

RECURSIVE SpicyLoop(_, _, _)
SpicyLoop(matches, dir, m) ==
  IF matches = <<>> THEN <<>>
  ELSE SpicyReply(Head(matches), dir, m) \o SpicyLoop(Tail(matches), dir, m)

----------------------------------------------------------------------------
(* Inbound text messages *)

\* what one reference in a text can be: a tag or a free-standing word
RefItems == { <<"#", "Cat">>, <<"ouch">>, <<"#", "spicy", "-", "OUCH">>,
              <<"#", "dog">>, <<"hot">>, <<"#", "cat", "_", "x">> }

\* the texts made of 1..n items separated by blanks
RECURSIVE TextsOf(_)
TextsOf(n) ==
  IF n = 1 THEN RefItems
  ELSE TextsOf(n - 1) \cup {a \o <<" ">> \o b : a \in TextsOf(n - 1), b \in RefItems}

\* reply_to_message is the id of the parent message, 0 when there is none
InboundMessages ==
  [message_id : {21}, reply_to_message : {0, 20}, text : TextsOf(MaxRefs)]

\* handle_message: the references are extracted, each key is resolved and its
\* requests are sent in turn; the send numbered fail_at raises (0: none does)
HandleMessage ==
  /\ NoneRunning
  /\ \E m \in InboundMessages :
       LET hashtags      == extract_hashtags(m.text)
           spicy_words   == load_spicy_triggers(snips)
           spicy_matches == extract_spicy_triggers(m.text, spicy_words)
           requests      == HashtagLoop(hashtags, meta, snips, m)
                              \o SpicyLoop(spicy_matches, snips, m)
       IN  \E fail_at \in 0..Len(requests) :
             tasks' = [tasks EXCEPT !["t1"] =
                         [handler |-> "message",
                          pc |-> IF fail_at = 0 THEN "done" ELSE "error",
                          m |-> m, hashtags |-> hashtags, spicy_words |-> spicy_words,
                          spicy_matches |-> spicy_matches, fail_at |-> fail_at,
                          error |-> IF fail_at = 0 THEN "none" ELSE "send",
                          sent |-> IF fail_at = 0 THEN requests
                                   ELSE SubSeq(requests, 1, fail_at - 1)]]
  /\ UNCHANGED <<snips, meta>>

----------------------------------------------------------------------------
(* The list command *)

\* len() of one token
TokLen(t) ==
  CASE t = "spicy" -> 5
    [] t \in {"html", "ouch"} -> 4
    [] t \in {"cat", "dog", "hot", "jpg", "mp4", "ogg", "pdf"} -> 3
    [] t = "md" -> 2
    [] OTHER -> 1

RECURSIVE StrLen(_)
StrLen(s) == IF s = <<>> THEN 0 ELSE TokLen(Head(s)) + StrLen(Tail(s))

\* len(f"#{tag}\n")
PartLen(tag) == 1 + StrLen(tag) + 1

\* sorted(md_tags | html_tags | media_tags): the stems of the text artifacts
\* and, of every other file with "_" in its stem, the stem up to its first "_"
ListTags(dir) ==
  LET md_tags    == {Stem(p) : p \in {q \in DOMAIN dir : IsSuffix(<<".", "md">>, q)}}
      html_tags  == {Stem(p) : p \in {q \in DOMAIN dir : IsSuffix(<<".", "html">>, q)}}
      media_tags == {SubSeq(Stem(p), 1, FirstTok(Stem(p), "_") - 1) :
                       p \in {q \in DOMAIN dir :
                                /\ Lower(Suffix(q)) \notin {<<"md">>, <<"html">>}
                                /\ FirstTok(Stem(q), "_") > 0}}
  IN  SortNames(md_tags \cup html_tags \cup media_tags)

\* the chunk loop: a page is closed when the next line would take it past
\* the limit, and the last page is kept when it is not empty
RECURSIVE Paginate(_, _, _)
Paginate(tags, parts, chunk) ==
  IF tags = <<>>
  THEN IF chunk.len > 0 THEN Append(parts, chunk) ELSE parts
  ELSE LET tag  == Head(tags)
           part == PartLen(tag)
       IN  IF chunk.len + part > PAGE_LIMIT
           THEN Paginate(Tail(tags), Append(parts, chunk),
                         [tags |-> <<tag>>, len |-> part])
           ELSE Paginate(Tail(tags), parts,
                         [tags |-> Append(chunk.tags, tag), len |-> chunk.len + part])

\* one page as it is sent
Page(chunk) ==
  [op |-> "send_message", chat_id |-> ChatId, what |-> "list",
   tags |-> chunk.tags, len |-> chunk.len]

\* handle_listng: any user may ask; the pages are sent in turn and the send
\* numbered fail_at raises (0: none does)
HandleList ==
  /\ NoneRunning
  /\ \E user \in Users :
       LET tags     == ListTags(snips)
           parts    == Paginate(tags, <<>>, [tags |-> <<>>, len |-> 0])
           requests == IF tags = <<>> THEN <<Notice("no_snippets")>>
                       ELSE [i \in 1..Len(parts) |-> Page(parts[i])]
       IN  \E fail_at \in 0..Len(requests) :
             tasks' = [tasks EXCEPT !["t1"] =
                         [handler |-> "list",
                          pc |-> IF fail_at = 0 THEN "done" ELSE "error",
                          user |-> user, tags |-> tags, fail_at |-> fail_at,
                          error |-> IF fail_at = 0 THEN "none" ELSE "send",
                          sent |-> IF fail_at = 0 THEN requests
                                   ELSE SubSeq(requests, 1, fail_at - 1)]]
  /\ UNCHANGED <<snips, meta>>

----------------------------------------------------------------------------
(* The store the bot starts with: snippets kept in the repository *)

\* a stretch of markdown text, and a placeholder ![..](rel) of a media file
MdText(n) == [len |-> n, media |-> <<>>]

MdMedia(rel, n) == [len |-> n, media |-> rel]

MdBody(segs) == [kind |-> "md", src |-> 0, segs |-> segs]

LegacySnips ==
  LET dog0 == <<"dog", "_", "0", ".", "jpg">>
      dog1 == <<"dog", "_", "1", ".", "jpg">>
      hot0 == <<"spicy", "-", "hot", "_", "0", ".", "jpg">>
      gone == <<"spicy", "-", "hot", "_", "1", ".", "jpg">>
      catx == <<"cat", "_", "x">>
      caty == <<"cat", "_", "x", "_", "y">>
  IN  (HtmlPath(catx) :> HtmlBody(0, 8))
      @@ (SavePath(catx, 0, "jpg") :> MediaBody(0, 0))
      @@ (HtmlPath(caty) :> HtmlBody(1, 9))
      @@ (SavePath(caty, 0, "jpg") :> MediaBody(1, 0))
      @@ (MdPath(<<"dog">>) :> MdBody(<<MdText(CAPTION_LIMIT), MdMedia(dog0, 14), MdMedia(dog1, 14)>>))
      @@ (dog0 :> MediaBody(0, 0))
      @@ (dog1 :> MediaBody(0, 1))
      @@ (MdPath(<<"spicy", "-", "hot">>)
            :> MdBody(<<MdText(CAPTION_LIMIT - 20), MdMedia(hot0, 20), MdMedia(gone, 21)>>))
      @@ (HtmlPath(<<"spicy", "-", "hot">>) :> HtmlBody(0, 4))
      @@ (hot0 :> MediaBody(0, 0))

\* a forward-only snippet saved earlier
LegacyMeta == <<"cat">> :> [chat_id |-> ChatId, message_id |-> 10]

Init ==
  /\ snips = LegacySnips
  /\ meta = LegacyMeta
  /\ tasks = [t \in Tasks |-> Idle]

\* a second /save arrives while a save handler waits at an await
OverlapSave ==
  /\ tasks["t1"].handler \in {"save", "savespicy"}
  /\ tasks["t1"].pc \in {"download", "confirm"}
  /\ tasks["t2"].pc = "idle"
  /\ \E user \in Users, has_reply \in BOOLEAN, args \in SaveArgs, reply \in SourceMessages :
       BeginSave("t2", "save", user, has_reply, args, reply)

Step == \E t \in Tasks : Download(t) \/ Confirm(t) \/ ErrorHandler(t) \/ Return(t)

Next == HandleMessage \/ HandleSave \/ HandleSaveSpicy \/ HandleList \/ Step

Spec == Init /\ [][Next]_vars

NextOverlap == Next \/ OverlapSave

SpecOverlap == Init /\ [][NextOverlap]_vars

----------------------------------------------------------------------------
(* Properties *)

Range(seq) == {seq[i] : i \in DOMAIN seq}

\* the handler of the update in slot t1, and whether it is handle_message
M == tasks["t1"]

Handled == M.handler = "message"

\* an outbound request that replays a snippet (not a notice)
IsReply(r) == "tag" \in DOMAIN r

\* the message an explicit tag, and a trigger word, is to be answered under
TagParent(m) == IF m.reply_to_message = 0 THEN m.message_id ELSE m.reply_to_message

\* how often key K is resolved from the handled message
Resolutions(K) ==
  Cardinality({i \in DOMAIN M.hashtags : M.hashtags[i] = K})
    + Cardinality({i \in DOMAIN M.spicy_matches :
                     <<"spicy", "-">> \o M.spicy_matches[i] = K})

\* the length of the text body a local snippet is replayed with
BodyLength(tag) ==
  IF MdPath(tag) \in Files
  THEN PlainLen(snips[MdPath(tag)].segs, snips)
  ELSE snips[HtmlPath(tag)].len

\* C1: every resolution of a key that has a forward reference (by an explicit
\* tag or by a trigger word) yields exactly one copy_message request and no
\* request built from local files, even when a text artifact exists too.
C1_ForwardRefWins ==
  (Handled /\ M.fail_at = 0) =>
    \A K \in DOMAIN meta :
      /\ Cardinality({i \in DOMAIN M.sent :
                        M.sent[i].tag = K /\ M.sent[i].op = "copy_message"})
           = Resolutions(K)
      /\ \A i \in DOMAIN M.sent : M.sent[i].tag = K => M.sent[i].op = "copy_message"

\* C2: no key has both a forward reference and a local text artifact.
C2_OneRecordPerKey ==
  \A K \in DOMAIN meta : HtmlPath(K) \notin Files /\ MdPath(K) \notin Files

\* the step in which handler t writes its text artifact
WritesLocal(t) == tasks[t].pc # "confirm" /\ tasks'[t].pc = "confirm"

\* C3: every local write for key K (by /save or /savespicy, first or repeated)
\* leaves meta without an entry for K and the entries of all other keys as
\* they were.
C3_LocalWriteDropsForward ==
  [][\A t \in Tasks :
       WritesLocal(t) =>
         /\ tasks'[t].hashtag \notin DOMAIN meta'
         /\ DOMAIN meta' = (DOMAIN meta) \ {tasks'[t].hashtag}
         /\ \A k \in DOMAIN meta' : meta'[k] = meta[k]]_vars

\* C4: every request for an explicit tag is threaded under the parent of the
\* inbound message when that is a reply and under the inbound message
\* otherwise; every request for a trigger word is threaded under the inbound
\* message.
C4_Threading ==
  Handled =>
    \A i \in DOMAIN M.sent :
      IsReply(M.sent[i]) =>
        M.sent[i].reply_to_message_id
          = IF M.sent[i].origin = "hashtag" THEN TagParent(M.m) ELSE M.m.message_id

\* C5: in a media-group reply of a local snippet, a body longer than 1024
\* characters is sent as a text message just before the group and no item
\* has a caption; a shorter body is the caption of the first item only.
C5_CaptionSplit ==
  Handled =>
    \A i \in DOMAIN M.sent :
      (IsReply(M.sent[i]) /\ M.sent[i].op = "send_media_group") =>
        LET r == M.sent[i]
            n == BodyLength(r.tag)
        IN  IF n > 1024
            THEN /\ i > 1
                 /\ M.sent[i - 1].op = "send_message"
                 /\ M.sent[i - 1].tag = r.tag
                 /\ M.sent[i - 1].text.len = n
                 /\ \A j \in DOMAIN r.media : r.media[j].caption = None
            ELSE /\ n > 0 => (r.media[1].caption # None /\ r.media[1].caption.len = n)
                 /\ \A j \in DOMAIN r.media : j > 1 => r.media[j].caption = None

\* a handler that got as far as its key: a save in progress or finished
HasKey(t) == "hashtag" \in DOMAIN tasks[t]

Confirmed(t) == Notice("saved") \in Range(tasks[t].sent)

\* C6 (as claimed): in a local save the "saved" confirmation is sent before
\* the audit-log step (git add / commit / push) starts.
C6_ConfirmedBeforeAudit ==
  \A t \in Tasks : (HasKey(t) /\ tasks[t].audit # "none") => Confirmed(t)

\* C6 (amended): in a local save the audit-log step has run before the
\* "saved" confirmation is sent, and whatever its outcome the handler goes on
\* to send the confirmation: only a failure of that send itself stops it.
C6_AuditThenConfirm ==
  \A t \in Tasks :
    HasKey(t) =>
      /\ Confirmed(t) => tasks[t].audit \in {"ok", "failed"}
      /\ tasks[t].audit # "none" =>
           \/ tasks[t].pc = "confirm"
           \/ Confirmed(t)
           \/ tasks[t].error = "send"

\* a save whose audit-log step failed and whose confirmation was sent
C6_Witness ==
  \E t \in Tasks : HasKey(t) /\ tasks[t].audit = "failed" /\ Confirmed(t)

\* every request the handled message calls for, in order
Planned ==
  HashtagLoop(M.hashtags, meta, snips, M.m) \o SpicyLoop(M.spicy_matches, snips, M.m)

\* C7: when the send for one key fails, the replies of the other keys
\* resolved later from the same message are still sent.
C7_FailureIsolated ==
  (Handled /\ M.fail_at > 0) =>
    \A i \in DOMAIN Planned :
      (/\ i > M.fail_at
       /\ \/ Planned[i].tag # Planned[M.fail_at].tag
          \/ Planned[i].origin # Planned[M.fail_at].origin)
        => Planned[i] \in Range(M.sent)

\* handler t has written its text artifact
Wrote(t) == HasKey(t) /\ tasks[t].audit # "none"

\* the stored record of w's key is the one save w produces: its text and
\* every file it downloaded
StoredIsFrom(w) ==
  /\ snips[HtmlPath(tasks[w].hashtag)].src = tasks[w].reply.message_id
  /\ \A p \in Range(tasks[w].saved_files) : snips[p].src = tasks[w].reply.message_id

Words == {<<"ouch">>, <<"hot">>, <<"cat">>, <<"dog">>, <<"OUCH">>}

SpicyKey(w) == <<"spicy", "-">> \o w

\* C9 (as claimed): at every message, the trigger vocabulary is the set of
\* words w for which a snippet with key spicy-w exists in the store.
C9_VocabularyIsSnippets ==
  Handled =>
    Range(M.spicy_words)
      = {w \in Words : \/ HtmlPath(SpicyKey(w)) \in Files
                       \/ MdPath(SpicyKey(w)) \in Files
                       \/ SpicyKey(w) \in DOMAIN meta}

\* C9 (amended): at every message, the trigger vocabulary is the set of
\* lower-cased words w for which the text artifact spicy-w.html exists; a
\* spicy-w snippet kept only as .md or as a forward reference adds no word.
C9_VocabularyIsHtml ==
  Handled =>
    Range(M.spicy_words) = {w \in Words : HtmlPath(SpicyKey(w)) \in Files}

\* a message matched on a trigger word whose snippet a save of this run added
C9_Witness ==
  /\ Handled
  /\ <<"ouch">> \in Range(M.spicy_matches)
  /\ HtmlPath(SpicyKey(<<"ouch">>)) \notin DOMAIN LegacySnips

\* the step in which slot t takes up an authorized /save with a key
BeginsSave(t) ==
  tasks[t].pc = "idle" /\ tasks'[t].handler = "save" /\ "hashtag" \in DOMAIN tasks'[t]

NonAdminCommand(task) ==
  task.handler \in {"save", "savespicy"} /\ task.user \notin ADMIN_IDS

\* C11 (as claimed): every /save or /savespicy of a non-admin gets the
\* PermissionDenied reply and leaves the store unchanged.
C11_NonAdminDenied ==
  [][\A t \in Tasks :
       (NonAdminCommand(tasks'[t]) /\ tasks'[t] # tasks[t]) =>
         /\ snips' = snips /\ meta' = meta
         /\ (tasks'[t].pc = "done" /\ tasks'[t].error = "none") =>
              tasks'[t].sent = <<Notice("denied")>>]_vars

\* C11 (amended): every /save or /savespicy of a non-admin leaves the store
\* unchanged; when it replies to a message it gets the PermissionDenied reply,
\* with or without a key argument, and otherwise it gets no reply at all.
C11_NonAdminDeniedOnReply ==
  [][\A t \in Tasks :
       (NonAdminCommand(tasks'[t]) /\ tasks'[t] # tasks[t]) =>
         /\ snips' = snips /\ meta' = meta
         /\ "hashtag" \notin DOMAIN tasks'[t]
         /\ (tasks'[t].pc = "done" /\ tasks'[t].error = "none") =>
              tasks'[t].sent = IF tasks'[t].has_reply
                               THEN <<Notice("denied")>> ELSE <<>>]_vars

\* a non-admin's /savespicy with a key argument, denied
C11_Witness ==
  /\ NonAdminCommand(tasks["t1"])
  /\ tasks["t1"].handler = "savespicy"
  /\ tasks["t1"].has_reply
  /\ tasks["t1"].args # <<>>
  /\ tasks["t1"].sent = <<Notice("denied")>>

\* the first position from i on that holds a blank, or the end of the text
NextBlank(text, i) ==
  CHOOSE j \in i..(Len(text) + 1) :
    /\ j = Len(text) + 1 \/ text[j] = " "
    /\ \A k \in i..(j - 1) : text[k] # " "

\* the tags written in a text, one per "#", in text order, read off the text
\* word by word
Occurrences(text) ==
  LET pos == SelectSeq([i \in 1..Len(text) |-> i], LAMBDA i : text[i] = "#")
  IN  [k \in 1..Len(pos) |->
         Lower(SubSeq(text, pos[k] + 1, NextBlank(text, pos[k] + 1) - 1))]

\* the replies to a list of tag occurrences, one after the other
RECURSIVE RepliesTo(_)
RepliesTo(occ) ==
  IF occ = <<>> THEN <<>>
  ELSE HashtagReply(Head(occ), meta, snips, M.m) \o RepliesTo(Tail(occ))

\* C12: the requests sent for explicit tags are the replies to the tag
\* occurrences of the text, one reply per occurrence in text order: a tag
\* written n times that resolves to a stored record is replied to n times.
C12_ReplyPerOccurrence ==
  (Handled /\ M.fail_at = 0) =>
    /\ SelectSeq(M.sent, LAMBDA r : r.origin = "hashtag")
         = RepliesTo(Occurrences(M.m.text))
    /\ \A K \in Range(Occurrences(M.m.text)) :
         Cardinality({i \in DOMAIN M.sent :
                        M.sent[i].origin = "hashtag" /\ M.sent[i].tag = K})
           = Cardinality({k \in DOMAIN Occurrences(M.m.text) :
                            Occurrences(M.m.text)[k] = K})
               * Len(HashtagReply(K, meta, snips, M.m))

\* "#dog #dog" was answered with the dog snippet twice
C12_Witness ==
  /\ Handled /\ M.fail_at = 0
  /\ M.m.text = <<"#", "dog", " ", "#", "dog">>
  /\ Len(M.sent) = 2
  /\ \A i \in DOMAIN M.sent : M.sent[i].tag = <<"dog">> /\ M.sent[i].op = "send_media_group"

\* the keys the handled message resolves, by tag or by trigger word
ResolvedKeys ==
  Range(M.hashtags) \cup {<<"spicy", "-">> \o w : w \in Range(M.spicy_matches)}

\* key K has a local record
HasLocalRecord(K) == MdPath(K) \in Files \/ HtmlPath(K) \in Files

\* no media file exists for the local record of K
NoMediaFile(K) ==
  IF MdPath(K) \in Files
  THEN MediaPaths(snips[MdPath(K)].segs, snips) = <<>>
  ELSE GlobTag(snips, K) = <<>>

\* the length of the text body of K: for an HTML record, the saved text
\* without the line end the save appends to it
TextBodyLength(K) ==
  IF MdPath(K) \in Files
  THEN PlainLen(snips[MdPath(K)].segs, snips)
  ELSE snips[HtmlPath(K)].len - 1

\* C13: each resolution of a local record without existing media file yields
\* exactly one formatted-text send when the text body is not empty and no
\* outbound request at all when it is empty.
C13_TextOnlyReply ==
  (Handled /\ M.fail_at = 0) =>
    \A K \in ResolvedKeys :
      (K \notin DOMAIN meta /\ HasLocalRecord(K) /\ NoMediaFile(K)) =>
        /\ \A i \in DOMAIN M.sent :
             M.sent[i].tag = K =>
               M.sent[i].op = "send_message" /\ M.sent[i].text.parse_mode # "none"
        /\ Cardinality({i \in DOMAIN M.sent : M.sent[i].tag = K})
             = IF TextBodyLength(K) > 0 THEN Resolutions(K) ELSE 0

\* handler t is a local save of a message with several attachments
LocalSaveOfSeveral(t) ==
  /\ HasKey(t)
  /\ Len(tasks[t].reply.media_entries) >= 2
  /\ ~(tasks[t].handler = "save" /\ TooLarge(tasks[t].total))

\* C14: a local save of a message with several attachments gives every
\* attachment its turn whatever happened to the others: when the handler has
\* ended, each attachment was tried, the downloaded ones are in their
\* {key}_{index} files, the text artifact is written and the save is confirmed
\* (unless sending the confirmation itself failed).
C14_AttachmentFailureSkipped ==
  \A t \in Tasks :
    (LocalSaveOfSeveral(t) /\ tasks[t].pc = "done" /\ tasks[t].error # "send") =>
      /\ tasks[t].idx = Len(tasks[t].reply.media_entries)
      /\ \A p \in Range(tasks[t].saved_files) : p \in Files
      /\ tasks[t].audit # "none"
      /\ HtmlPath(tasks[t].hashtag) \in Files
      /\ Confirmed(t)

\* position of the last occurrence of token c in s, 0 when there is none
LastTok(s, c) ==
  IF \E i \in 1..Len(s) : s[i] = c
  THEN CHOOSE i \in 1..Len(s) : s[i] = c /\ \A j \in (i + 1)..Len(s) : s[j] # c
  ELSE 0

\* the keys under which something is stored: the stem of every text artifact,
\* and for every media file {key}_{index}.ext its name up to the "_" before
\* the index
StoredKeys ==
  {Stem(p) : p \in {q \in Files : Suffix(q) \in {<<"md">>, <<"html">>}}}
    \cup {SubSeq(Stem(p), 1, LastTok(Stem(p), "_") - 1) :
            p \in {q \in Files : /\ Suffix(q) \notin {<<"md">>, <<"html">>}
                                 /\ LastTok(Stem(q), "_") > 0}}

\* the slot holds a finished list command
Listed == M.handler = "list" /\ M.fail_at = 0

RECURSIVE Flatten(_)
Flatten(pages) ==
  IF pages = <<>> THEN <<>> ELSE Head(pages).tags \o Flatten(Tail(pages))

\* C15: the pages of the list command carry exactly the stored keys, each
\* once and in sorted order, and every page is non-empty and at most 4000
\* characters long.
C15_ListIsStoredKeys ==
  (Listed /\ StoredKeys # {}) =>
    /\ Flatten(M.sent) = SortNames(StoredKeys)
    /\ \A i \in DOMAIN M.sent : M.sent[i].len > 0 /\ M.sent[i].len <= 4000

\* file p is an attachment slot of key K: K, "_", an index, a suffix
IsSlotOf(p, K) ==
  /\ IsPrefix(K \o <<"_">>, p)
  /\ LastTok(Stem(p), "_") = Len(K) + 1

\* the attachments of request r that do not belong to the stored save of
\* key K: files of another key, and files no save of the stored text wrote
Foreign(r, K) ==
  {i \in DOMAIN r.media :
     \/ ~IsSlotOf(r.media[i].name, K)
     \/ r.media[i].media.kind # "media"
     \/ r.media[i].media.src # snips[HtmlPath(K)].src}

\* C16: the reply to a key saved locally carries only attachments downloaded
\* by the save that wrote the stored text of that key: no file left by an
\* earlier save of the key, and no file of another key whose name begins
\* with the key and an underscore.
C16_ReplaysLatestSave ==
  (Handled /\ M.fail_at = 0) =>
    \A i \in DOMAIN M.sent :
      LET r == M.sent[i]
      IN  (/\ r.op \in {"send_voice", "send_media_group"}
           /\ MdPath(r.tag) \notin Files
           /\ HtmlPath(r.tag) \in Files)
            => Foreign(r, r.tag) = {}

====
